---- MODULE Spec2Model ----
(***************************************************************************)
(* Model of the OpenProject Gantt chart generator:                         *)
(*   gantt_chart_generator.py  GanttChartGenerator (_parse_date,           *)
(*                             _get_status_color, wrap_name,               *)
(*                             _extract_work_package_data,                 *)
(*                             generate_gantt_chart)                       *)
(*   openproject_client.py     OpenProjectClient (the pagination loops)    *)
(*                                                                         *)
(* Text is a tuple of one-character strings.  A datetime is a day number   *)
(* with a flag telling whether it carries a UTC offset (timezone-aware).   *)
(* A Python exception is an explicit "raised" result.                      *)
(***************************************************************************)
EXTENDS Integers, Sequences, FiniteSets

VARIABLES
    pc,                 \* the call in progress, or its completion
    wp, data, raised,   \* _extract_work_package_data: one item in, rows out
    now,                \* datetime.utcnow() / the `now` argument
    status, start, finish, color,  \* _get_status_color arguments and result
    fetch,              \* what the client does for generate_gantt_chart
    work_packages,      \* the list get_work_packages returns
    epic_only,          \* the epic_only argument
    df, df_plot,        \* the sorted frame with its week columns, and the plotted rows
    outcome,            \* which page generate_gantt_chart returns
    name, max_chars, max_lines,  \* wrap_name arguments
    lines, result,      \* wrap_name: the lines list at line 55, the returned text
    endpoint, limit,    \* the paginated call and its limit argument
    all_elements, offset,  \* all_projects / all_work_packages, and offset
    requests            \* the number of _make_request calls of the loop

vars == <<pc, wp, data, raised, now, status, start, finish, color,
          fetch, work_packages, epic_only, df, df_plot, outcome,
          name, max_chars, max_lines, lines, result,
          endpoint, limit, all_elements, offset, requests>>

chartVars == <<fetch, work_packages, epic_only, df, df_plot, outcome>>
itemVars == <<wp, data, raised>>
colorVars == <<status, start, finish, color>>
wrapVars == <<name, max_chars, max_lines, lines, result>>
pageVars == <<endpoint, limit, all_elements, offset, requests>>

\* ------------------------------------------------------------------ bounds

MaxDay == 2             \* day numbers 0..MaxDay in the single-item checks
MaxItems == 2           \* work packages per project in the chart checks
ChartStride == 8        \* distance in days between the dates of the chart checks
MaxChartIdx == 1        \* the chart checks use the days 0, ChartStride, ...
MaxNameLen == 7         \* characters of a title in the wrap_name checks
MaxWrapChars == 3       \* max_chars is 2..MaxWrapChars in the wrap_name checks
MaxWrapLines == 2       \* max_lines is 1..MaxWrapLines in the wrap_name checks
MaxLimit == 5           \* the limit argument is -1..MaxLimit in the pagination checks
MaxPageLen == 3         \* elements the server puts on one page
MaxTotal == 9           \* the server's 'total' is 0..MaxTotal

Days == 0..MaxDay

\* -------------------------------------------------------------------- text

LowerChar(c) ==
    CASE c = "A" -> "a" [] c = "C" -> "c" [] c = "D" -> "d" [] c = "E" -> "e"
      [] c = "I" -> "i" [] c = "K" -> "k" [] c = "L" -> "l" [] c = "N" -> "n"
      [] c = "O" -> "o" [] c = "P" -> "p" [] c = "S" -> "s" [] c = "T" -> "t"
      [] OTHER -> c

UpperChar(c) ==
    CASE c = "a" -> "A" [] c = "c" -> "C" [] c = "d" -> "D" [] c = "e" -> "E"
      [] c = "i" -> "I" [] c = "k" -> "K" [] c = "l" -> "L" [] c = "n" -> "N"
      [] c = "o" -> "O" [] c = "p" -> "P" [] c = "s" -> "S" [] c = "t" -> "T"
      [] OTHER -> c

\* str.lower()
Lower(s) == [i \in DOMAIN s |-> LowerChar(s[i])]

\* str.upper()
Upper(s) == [i \in DOMAIN s |-> UpperChar(s[i])]

closed == <<"c", "l", "o", "s", "e", "d">>
Closed == <<"C", "l", "o", "s", "e", "d">>
open == <<"O", "p", "e", "n">>
Unknown == <<"U", "n", "k", "n", "o", "w", "n">>
Task == <<"T", "a", "s", "k">>
Epic == <<"E", "p", "i", "c">>
epic == <<"e", "p", "i", "c">>

\* every spelling of "closed" in upper and lower case letters
ClosedSpellings ==
    {[i \in 1..Len(closed) |-> IF up[i] THEN UpperChar(closed[i]) ELSE closed[i]] :
        up \in [1..Len(closed) -> BOOLEAN]}

\* ---------------------------------------------------------------- datetimes

\* None
None == [some |-> FALSE, day |-> 0, tz |-> FALSE]

\* a datetime: tz is TRUE for an offset-aware value, FALSE for a naive one
DT(d, aware) == [some |-> TRUE, day |-> d, tz |-> aware]

\* date + timedelta(days=n)
AddDays(date, n) == [date EXCEPT !.day = @ + n]

\* Date strings of the API: absent (missing key, null or ""), a string that
\* datetime.fromisoformat rejects, or an ISO date with or without a "Z" suffix.
Absent == [kind |-> "absent", day |-> 0, z |-> FALSE]
Bad == [kind |-> "bad", day |-> 0, z |-> FALSE]
Iso(d, z) == [kind |-> "iso", day |-> d, z |-> z]

DateStrings == {Absent, Bad} \cup {Iso(d, z) : d \in Days, z \in BOOLEAN}

\* Python truthiness of an optional string
Truthy(s) == s.kind # "absent"

\* a or b
PyOr(a, b) == IF Truthy(a) THEN a ELSE b

\* _parse_date without the except clause's None: a malformed string yields a date
_parse_date_MalformedIsDate(date_str) ==
    IF ~Truthy(date_str) THEN None
    ELSE DT(date_str.day, date_str.z)

\* _parse_date: "Z" becomes "+00:00", so a "Z" string parses to an aware value
_parse_date(date_str) ==
    IF ~Truthy(date_str) THEN None
    ELSE IF date_str.kind = "iso" THEN DT(date_str.day, date_str.z)
    ELSE None

\* ------------------------------------------------------------ status colour

ColorDone == "#27ae60"
ColorFuture == "#9b59b6"
ColorOnTrack == "#3498db"
ColorOverdue == "#e74c3c"
ColorUnknown == "#95a5a6"
\* comparing an offset-naive with an offset-aware datetime
TypeError == "TypeError"

closed_statuses == {Closed, closed, Upper(closed)}

\* a < b, a <= b, a > b on datetimes raise when exactly one operand is aware
Comparable(a, b) == a.tz = b.tz

_get_status_color(st, s, f, n) ==
    IF st \in closed_statuses THEN ColorDone
    ELSE IF s.some /\ n.some /\ ~Comparable(s, n) THEN TypeError
    ELSE IF s.some /\ n.some /\ s.day > n.day THEN ColorFuture
    ELSE IF s.some /\ f.some /\ n.some /\ s.day <= n.day /\ ~Comparable(n, f) THEN TypeError
    ELSE IF s.some /\ f.some /\ n.some /\ s.day <= n.day /\ n.day <= f.day THEN ColorOnTrack
    ELSE IF f.some /\ n.some /\ ~Comparable(f, n) THEN TypeError
    ELSE IF f.some /\ n.some /\ f.day < n.day THEN ColorOverdue
    ELSE ColorUnknown

\* ---------------------------------------------------------------- wrap_name

RECURSIVE SplitFrom(_, _, _)
\* str.split(): the maximal runs of non-blank characters, from position i on,
\* word being the run collected so far
SplitFrom(text, i, word) ==
    IF i > Len(text) THEN (IF word = <<>> THEN <<>> ELSE <<word>>)
    ELSE IF text[i] = " "
        THEN (IF word = <<>> THEN <<>> ELSE <<word>>) \o SplitFrom(text, i + 1, <<>>)
    ELSE SplitFrom(text, i + 1, Append(word, text[i]))

split(text) == SplitFrom(text, 1, <<>>)

RECURSIVE join(_, _)
\* sep.join(parts)
join(sep, parts) ==
    IF parts = <<>> THEN <<>>
    ELSE IF Len(parts) = 1 THEN parts[1]
    ELSE parts[1] \o sep \o join(sep, Tail(parts))

RECURSIVE SumLen(_)
\* sum(len(l) for l in parts)
SumLen(parts) == IF parts = <<>> THEN 0 ELSE Len(parts[1]) + SumLen(Tail(parts))

BreakMarker == <<"<", "b", "r", ">">>
Ellipsis == <<".", ".", ".">>

RECURSIVE WrapLoop(_, _, _, _, _, _)
\* lines 41-50: the for loop from the i-th word on; returns lines and current_line
WrapLoop(words, i, ls, current_line, mc, ml) ==
    IF i > Len(words) THEN [lines |-> ls, current_line |-> current_line]
    ELSE IF Len(current_line) + Len(words[i]) + 1 <= mc
        THEN WrapLoop(words, i + 1, ls,
                      (IF current_line # <<>> THEN current_line \o <<" ">> ELSE current_line)
                          \o words[i],
                      mc, ml)
    ELSE IF Len(Append(ls, current_line)) = ml - 1
        THEN [lines |-> Append(ls, current_line), current_line |-> words[i]]
    ELSE WrapLoop(words, i + 1, Append(ls, current_line), words[i], mc, ml)

\* lines 35-58: the lines list and the returned text
wrap_name(text, mc, ml) ==
    IF Len(text) <= mc THEN [lines |-> <<>>, result |-> text]
    ELSE LET loop == WrapLoop(split(text), 1, <<>>, <<>>, mc, ml)
             all == IF loop.current_line # <<>>
                        THEN Append(loop.lines, loop.current_line)
                    ELSE loop.lines
             ls == IF Len(all) > ml THEN SubSeq(all, 1, ml) ELSE all
             joined == join(BreakMarker, ls)
         IN  [lines |-> ls,
              result |->
                IF Len(ls) = ml
                   /\ Len(loop.current_line) + SumLen(SubSeq(ls, 1, Len(ls) - 1)) < Len(text)
                    THEN joined \o Ellipsis
                ELSE joined]

\* ------------------------------------------------- _extract_work_package_data

\* dict.get(key, default) on the nested _links title: <<>> is a missing title
TitleOr(opt, default) == IF opt = <<>> THEN default ELSE opt[1]

\* the back-filling with the day subtracted where it is to be added
ResolveDates_FinishBeforeStart(w) ==
    LET start_date == _parse_date(PyOr(w.startDate, w.derivedStartDate))
        due_date == _parse_date(PyOr(w.dueDate, w.derivedDueDate))
    IN  IF start_date.some /\ ~due_date.some
            THEN <<start_date, AddDays(start_date, 0 - 1)>>
        ELSE IF due_date.some /\ ~start_date.some
            THEN <<AddDays(due_date, 0 - 1), due_date>>
        ELSE <<start_date, due_date>>

\* lines 64-69: the start and due values after parsing and back-filling
ResolveDates(w) ==
    LET start_date == _parse_date(PyOr(w.startDate, w.derivedStartDate))
        due_date == _parse_date(PyOr(w.dueDate, w.derivedDueDate))
    IN  IF start_date.some /\ ~due_date.some
            THEN <<start_date, AddDays(start_date, 1)>>
        ELSE IF due_date.some /\ ~start_date.some
            THEN <<AddDays(due_date, 0 - 1), due_date>>
        ELSE <<start_date, due_date>>

\* lines 74-88: the colour and the row, given the resolved dates; raised
\* tells that the colour comparison, or due_date - start_date on a naive and
\* an aware value, raised
MakeRow(w, start_date, due_date, st, c) ==
    [raised |-> c = TypeError
                \/ (start_date.some /\ due_date.some /\ ~Comparable(due_date, start_date)),
     row |-> [id |-> w.id,
              Start |-> start_date,
              Finish |-> due_date,
              Status |-> st,
              Type |-> TitleOr(w.type, Task),
              Color |-> c,
              Duration |-> IF start_date.some /\ due_date.some
                               THEN due_date.day - start_date.day
                           ELSE 0,
              MissingStart |-> ~start_date.some]]

\* line 74
ColoredRow(w, start_date, due_date, st, n) ==
    MakeRow(w, start_date, due_date, st, _get_status_color(st, start_date, due_date, n))

\* lines 64-70
DatedRow(w, dates, n) == ColoredRow(w, dates[1], dates[2], TitleOr(w.status, Unknown), n)

\* lines 60-88: the row of one work package, or the exception the loop body raises
ExtractRow(w, n) == DatedRow(w, ResolveDates(w), n)

\* the loop of lines 60-88 over rows already made: the first exception ends it
Collected(rows) ==
    [raised |-> \E i \in 1..Len(rows) : rows[i].raised,
     data |-> IF \E i \in 1..Len(rows) : rows[i].raised THEN <<>>
              ELSE [i \in 1..Len(rows) |-> rows[i].row]]

_extract_work_package_data(wps, n) ==
    Collected([i \in 1..Len(wps) |-> ExtractRow(wps[i], n)])

\* ------------------------------------------------------ single-item behaviour

ItemStatuses == {<<>>, <<Closed>>, <<open>>}
ItemTypes == {<<>>, <<Epic>>}

WorkPackages ==
    [id : {1}, startDate : DateStrings, derivedStartDate : DateStrings,
     dueDate : DateStrings, derivedDueDate : DateStrings,
     status : ItemStatuses, type : ItemTypes]

\* datetime.utcnow() is naive
Nows == {DT(d, FALSE) : d \in Days}

NoWp == [id |-> 0, startDate |-> Absent, derivedStartDate |-> Absent,
         dueDate |-> Absent, derivedDueDate |-> Absent,
         status |-> <<>>, type |-> <<>>]

IdlePage ==
    /\ endpoint = "" /\ limit = 0 /\ all_elements = <<>> /\ offset = 0 /\ requests = 0

IdleWrap ==
    /\ IdlePage
    /\ name = <<>> /\ max_chars = 0 /\ max_lines = 0 /\ lines = <<>> /\ result = <<>>

IdleChart ==
    /\ IdleWrap
    /\ fetch = "" /\ work_packages = <<>> /\ epic_only = FALSE
    /\ df = <<>> /\ df_plot = <<>> /\ outcome = ""

InitExtract ==
    /\ pc = "extract"
    /\ wp \in WorkPackages /\ now \in Nows
    /\ data = <<>> /\ raised = FALSE
    /\ status = <<>> /\ start = None /\ finish = None /\ color = ""
    /\ IdleChart

\* _extract_work_package_data on a list of one work package
Extract ==
    /\ pc = "extract"
    /\ LET r == _extract_work_package_data(<<wp>>, now)
       IN  /\ data' = r.data
           /\ raised' = r.raised
    /\ pc' = "extracted"
    /\ UNCHANGED <<wp, now, colorVars, chartVars, wrapVars, pageVars>>

SpecExtract == InitExtract /\ [][Extract]_vars

\* ------------------------------------------------------ status colour calls

Datetimes == {None} \cup {DT(d, aware) : d \in Days, aware \in BOOLEAN}

Statuses == ClosedSpellings \cup {open, Unknown}

InitColor ==
    /\ pc = "color"
    /\ status \in Statuses /\ start \in Datetimes /\ finish \in Datetimes
    /\ now \in Datetimes
    /\ color = ""
    /\ wp = NoWp /\ data = <<>> /\ raised = FALSE
    /\ IdleChart

GetStatusColor ==
    /\ pc = "color"
    /\ color' = _get_status_color(status, start, finish, now)
    /\ pc' = "colored"
    /\ UNCHANGED <<itemVars, now, status, start, finish, chartVars, wrapVars, pageVars>>

SpecColor == InitColor /\ [][GetStatusColor]_vars

\* ------------------------------------------------------ generate_gantt_chart

\* df[df['Type'].str.lower() == 'epic']
EpicRows(rows) == SelectSeq(rows, LAMBDA r : Lower(r.Type) = epic)

\* the sort key ['MissingStart', 'Start'], ascending, NaT last: a sorts no later than b
RowLE(a, b) ==
    IF a.MissingStart # b.MissingStart THEN ~a.MissingStart
    ELSE IF ~a.Start.some THEN ~b.Start.some
    ELSE IF ~b.Start.some THEN TRUE
    ELSE a.Start.day <= b.Start.day

RECURSIVE InsertStable(_, _)
\* x goes behind every row that sorts no later than it
InsertStable(x, sorted) ==
    IF sorted = <<>> THEN <<x>>
    ELSE IF RowLE(sorted[1], x) THEN <<sorted[1]>> \o InsertStable(x, Tail(sorted))
    ELSE <<x>> \o sorted

RECURSIVE sort_values(_)
\* df.sort_values(['MissingStart', 'Start']): a stable sort
sort_values(rows) ==
    IF rows = <<>> THEN <<>>
    ELSE InsertStable(rows[Len(rows)], sort_values(SubSeq(rows, 1, Len(rows) - 1)))

\* ordering naive against aware Start values raises
MixedStarts(rows) ==
    \E i, j \in 1..Len(rows) :
        rows[i].Start.some /\ rows[j].Start.some /\ ~Comparable(rows[i].Start, rows[j].Start)

\* week_or_none: <<>> is None
week_or_none(date, min_start) ==
    IF date.some
        THEN LET w == ((date.day - min_start.day) \div 7) + 1
             IN  <<IF w >= 1 THEN w ELSE 1>>
    ELSE <<>>

\* line 132: FinishWeek becomes StartWeek + 1 where the two are equal
Bumped(r, StartWeek, FinishWeek) ==
    [row |-> r,
     StartWeek |-> StartWeek,
     FinishWeek |-> IF StartWeek # <<>> /\ FinishWeek = StartWeek
                        THEN <<StartWeek[1] + 1>>
                    ELSE FinishWeek]

\* lines 130-132 for one row
WeekRow(r, min_start) ==
    Bumped(r, week_or_none(r.Start, min_start), week_or_none(r.Finish, min_start))

\* valid_starts = df['Start'].dropna()
ValidStarts(rows) == {rows[i].Start : i \in {k \in 1..Len(rows) : rows[k].Start.some}}

\* valid_starts.min()
MinStart(valid_starts) == CHOOSE m \in valid_starts : \A v \in valid_starts : m.day <= v.day

\* lines 133-135
NoWeeks(r) == [row |-> r, StartWeek |-> <<>>, FinishWeek |-> <<>>]

WeekRows(rows, valid_starts) ==
    IF valid_starts # {}
        THEN [i \in 1..Len(rows) |-> WeekRow(rows[i], MinStart(valid_starts))]
    ELSE [i \in 1..Len(rows) |-> NoWeeks(rows[i])]

\* lines 121-135: the StartWeek and FinishWeek columns
WithWeeks(rows) == WeekRows(rows, ValidStarts(rows))

\* df[df['StartWeek'].notnull() & df['FinishWeek'].notnull()]
Plotted(rows) == SelectSeq(rows, LAMBDA r : r.StartWeek # <<>> /\ r.FinishWeek # <<>>)

Result(o, rows, plot) == [outcome |-> o, df |-> rows, df_plot |-> plot]

\* lines 137-242: the notice when nothing can be plotted, the chart otherwise
Rendered(weeks, plot) ==
    IF plot = <<>> THEN Result("Empty_no_scheduled", weeks, <<>>)
    ELSE Result("Success", weeks, plot)

\* lines 112-135: the notice for an empty frame; sorting naive against aware
\* Start values raises; then the weeks
Laid(filtered) ==
    IF filtered = <<>> THEN Result("Empty_no_scheduled", <<>>, <<>>)
    ELSE IF MixedStarts(filtered) THEN Result("Failure", <<>>, <<>>)
    ELSE Rendered(WithWeeks(sort_values(filtered)), Plotted(WithWeeks(sort_values(filtered))))

\* lines 105-110
Filtered(ex, eo) ==
    IF ex.raised THEN Result("Failure", <<>>, <<>>)
    ELSE Laid(IF eo THEN EpicRows(ex.data) ELSE ex.data)

\* lines 91-247.  The outcomes are the four pages the function returns: the
\* chart, the two notices and the error alert of the except clause.
generate_gantt_chart(f, wps, eo, n) ==
    IF f # "ok" THEN Result("Failure", <<>>, <<>>)
    ELSE IF wps = <<>> THEN Result("Empty_no_work_packages", <<>>, <<>>)
    ELSE Filtered(_extract_work_package_data(wps, n), eo)

ChartDays == {k * ChartStride : k \in 0..MaxChartIdx}

ChartDateStrings == {Absent, Bad} \cup {Iso(d, z) : d \in ChartDays, z \in BOOLEAN}

ChartItems ==
    [id : {0}, startDate : ChartDateStrings, derivedStartDate : {Absent},
     dueDate : ChartDateStrings, derivedDueDate : {Absent},
     status : {<<Closed>>, <<open>>}, type : {<<>>, <<Upper(epic)>>}]

\* the i-th work package of a list has id i
WithIds(items) == [i \in 1..Len(items) |-> [items[i] EXCEPT !.id = i]]

ChartNows == {DT(d, FALSE) : d \in ChartDays}

Init ==
    /\ pc = "request"
    /\ fetch \in {"ok", "get_project raises", "get_work_packages raises"}
    /\ \E n \in 0..MaxItems : \E items \in [1..n -> ChartItems] :
          work_packages = IF fetch = "ok" THEN WithIds(items) ELSE <<>>
    /\ now \in ChartNows
    /\ epic_only = FALSE /\ df = <<>> /\ df_plot = <<>> /\ outcome = ""
    /\ wp = NoWp /\ data = <<>> /\ raised = FALSE
    /\ status = <<>> /\ start = None /\ finish = None /\ color = ""
    /\ IdleWrap

Respond(eo) ==
    /\ pc = "request"
    /\ LET r == generate_gantt_chart(fetch, work_packages, eo, now)
       IN  /\ outcome' = r.outcome
           /\ df' = r.df
           /\ df_plot' = r.df_plot
    /\ epic_only' = eo
    /\ pc' = "responded"
    /\ UNCHANGED <<fetch, work_packages, now, itemVars, colorVars, wrapVars, pageVars>>

\* route /gantt/<project_id>
gantt_chart == Respond(FALSE)

\* route /gantt_epic/<project_id>
gantt_chart_epic == Respond(TRUE)

Next == gantt_chart \/ gantt_chart_epic

Spec == Init /\ [][Next]_vars

\* ---------------------------------------------------------- wrap_name calls

RECURSIVE Texts(_)
\* the titles of n characters: letters and blanks
Texts(n) == IF n = 0 THEN {<<>>} ELSE {Append(t, c) : t \in Texts(n - 1), c \in {"a", " "}}

Names == UNION {Texts(n) : n \in 0..MaxNameLen}

InitWrap ==
    /\ pc = "wrap"
    /\ name \in Names /\ max_chars \in 2..MaxWrapChars /\ max_lines \in 1..MaxWrapLines
    /\ lines = <<>> /\ result = <<>>
    /\ now = None /\ wp = NoWp /\ data = <<>> /\ raised = FALSE
    /\ status = <<>> /\ start = None /\ finish = None /\ color = ""
    /\ fetch = "" /\ work_packages = <<>> /\ epic_only = FALSE
    /\ df = <<>> /\ df_plot = <<>> /\ outcome = ""
    /\ IdlePage

WrapName ==
    /\ pc = "wrap"
    /\ LET r == wrap_name(name, max_chars, max_lines)
       IN  /\ lines' = r.lines
           /\ result' = r.result
    /\ pc' = "wrapped"
    /\ UNCHANGED <<name, max_chars, max_lines, now, itemVars, colorVars, chartVars, pageVars>>

SpecWrap == InitWrap /\ [][WrapName]_vars

\* ------------------------------------------- get_projects / get_work_packages

page_size == 100

\* the break test without its limit clause
ShouldBreak_IgnoresLimit(len, total, lim) == len >= total

\* lines 39 and 63: the break test after a non-empty page
ShouldBreak(len, total, lim) == len >= total \/ len >= lim

InitPage ==
    /\ pc = "paging"
    /\ endpoint \in {"/projects", "/work_packages"}
    /\ limit \in (0 - 1)..MaxLimit
    /\ all_elements = <<>> /\ offset = 1 /\ requests = 0
    /\ now = None /\ wp = NoWp /\ data = <<>> /\ raised = FALSE
    /\ status = <<>> /\ start = None /\ finish = None /\ color = ""
    /\ fetch = "" /\ work_packages = <<>> /\ epic_only = FALSE
    /\ df = <<>> /\ df_plot = <<>> /\ outcome = ""
    /\ name = <<>> /\ max_chars = 0 /\ max_lines = 0 /\ lines = <<>> /\ result = <<>>

\* one pass of the while loop: the server answers with an error status, or
\* with n elements and a 'total' (a missing 'total' reads as 0)
Request(ep) ==
    /\ pc = "paging"
    /\ endpoint = ep
    /\ requests' = requests + 1
    /\ \/ /\ pc' = "raised"
          /\ UNCHANGED <<all_elements, offset>>
       \/ \E n \in 0..MaxPageLen, total \in 0..MaxTotal :
            LET elements == [i \in 1..n |-> [offset |-> offset, index |-> i]]
            IN  IF elements = <<>>
                    THEN /\ pc' = "returned"
                         /\ UNCHANGED <<all_elements, offset>>
                ELSE /\ all_elements' = all_elements \o elements
                     /\ IF ShouldBreak(Len(all_elements'), total, limit)
                            THEN /\ pc' = "returned"
                                 /\ UNCHANGED offset
                        ELSE /\ pc' = "paging"
                             /\ offset' = offset + page_size
    /\ UNCHANGED <<endpoint, limit, now, itemVars, colorVars, chartVars, wrapVars>>

get_projects == Request("/projects")

get_work_packages == Request("/work_packages")

NextPage == get_projects \/ get_work_packages

\* The loop is sequential code: while it has not returned or raised, its next
\* pass runs.
SpecPage == InitPage /\ [][NextPage]_vars /\ WF_vars(NextPage)

\* ========================================================== properties

Max(a, b) == IF a >= b THEN a ELSE b

\* the date string the item gives for its start / due date, and whether it is a date
GivenStart(w) == IF w.startDate = Absent THEN w.derivedStartDate ELSE w.startDate
GivenDue(w) == IF w.dueDate = Absent THEN w.derivedDueDate ELSE w.dueDate
Parses(date_str) == date_str.kind = "iso"
AsDate(date_str) == [some |-> TRUE, day |-> date_str.day, tz |-> date_str.z]

\* the input item a row of the frame was made from
ItemOf(r) == work_packages[r.row.id]

\* C1: every plotted row has FinishWeek strictly greater than StartWeek.
C1_FinishWeekAfterStartWeek ==
    pc = "responded" =>
        \A i \in 1..Len(df_plot) : df_plot[i].FinishWeek[1] > df_plot[i].StartWeek[1]

\* C2 as stated: in every normalized item with both dates, Finish >= Start.
C2_FinishNotBeforeStart ==
    (pc = "extracted" /\ ~raised) =>
        \A i \in 1..Len(data) :
            (data[i].Start.some /\ data[i].Finish.some)
                => data[i].Finish.day >= data[i].Start.day

\* C2 amended: in every normalized item with both dates of which at least one
\* was inferred (the given start or the given due date is absent or
\* malformed), Finish >= Start; when both are given they are kept as they
\* are, whatever their order.
C2_InferredFinishNotBeforeStart ==
    (pc = "extracted" /\ ~raised) =>
        /\ (data[1].Start.some /\ data[1].Finish.some
                /\ ~(Parses(GivenStart(wp)) /\ Parses(GivenDue(wp))))
              => data[1].Finish.day >= data[1].Start.day
        /\ (Parses(GivenStart(wp)) /\ Parses(GivenDue(wp)))
              => /\ data[1].Start = AsDate(GivenStart(wp))
                 /\ data[1].Finish = AsDate(GivenDue(wp))

\* C2 witness: an item with a start date only was normalized, its finish inferred.
C2_FinishInferred ==
    /\ pc = "extracted" /\ ~raised
    /\ Parses(GivenStart(wp)) /\ ~Parses(GivenDue(wp))
    /\ data[1].Start.some /\ data[1].Finish.some

\* C3: every spelling of "closed" gives the Done colour, whatever the dates;
\* for any other status the first rule that matches, in the order Future,
\* OnTrack, Overdue, Unknown, gives the colour returned.
C3_ClosedAnyCaseIsDone ==
    pc = "colored" =>
        /\ Lower(status) = closed => color = ColorDone
        /\ (Lower(status) # closed /\ color # TypeError) =>
              color = IF start.some /\ now.some /\ start.day > now.day THEN ColorFuture
                      ELSE IF start.some /\ finish.some /\ now.some
                              /\ start.day <= now.day /\ now.day <= finish.day
                          THEN ColorOnTrack
                      ELSE IF finish.some /\ now.some /\ finish.day < now.day
                          THEN ColorOverdue
                      ELSE ColorUnknown

\* C4: in the rows of a chart every item with an explicit start date comes
\* before every item whose start was inferred from its due date, and the
\* items with an explicit start are in ascending order of start.
C4_ExplicitStartsFirstAscending ==
    outcome = "Success" =>
        \A i, j \in 1..Len(df) :
            i < j =>
                /\ Parses(GivenStart(ItemOf(df[j]))) => Parses(GivenStart(ItemOf(df[i])))
                /\ (Parses(GivenStart(ItemOf(df[i]))) /\ Parses(GivenStart(ItemOf(df[j]))))
                      => df[i].row.Start.day <= df[j].row.Start.day

\* C5: when both fetches succeed the outcome is never Failure, whatever the
\* items' data.
C5_FailureOnlyFromFetch ==
    (pc = "responded" /\ fetch = "ok") => outcome \in {"Success", "Empty_no_work_packages", "Empty_no_scheduled"}

\* the words of the first k lines
WordsIn(ls, k) == split(join(<<" ">>, SubSeq(ls, 1, k)))

\* C6: for a title longer than max_chars the lines are the greedy packing of
\* its words: consecutive words, as many per line as fit, no line longer
\* than max_chars, at most max_lines lines, no empty line.
C6_GreedyPacking ==
    (pc = "wrapped" /\ Len(name) > max_chars) =>
        LET words == split(name)
        IN  /\ Len(lines) <= max_lines
            /\ \A i \in 1..Len(lines) : lines[i] # <<>> /\ Len(lines[i]) <= max_chars
            /\ Len(WordsIn(lines, Len(lines))) <= Len(words)
            /\ WordsIn(lines, Len(lines)) = SubSeq(words, 1, Len(WordsIn(lines, Len(lines))))
            /\ \A i \in 1..Len(lines) :
                  LET packed == Len(WordsIn(lines, i))
                  IN  packed < Len(words)
                        => Len(lines[i]) + 1 + Len(words[packed + 1]) > max_chars

EndsWith(text, suffix) ==
    /\ Len(text) >= Len(suffix)
    /\ SubSeq(text, Len(text) - Len(suffix) + 1, Len(text)) = suffix

\* C7: the returned label ends with the ellipsis exactly when words of the
\* title were left unpacked, and a title too long for max_lines lines of
\* max_chars characters (250 characters for 2 lines of 100) gives exactly
\* max_lines lines and the ellipsis.
C7_EllipsisIffTruncated ==
    pc = "wrapped" =>
        /\ EndsWith(result, Ellipsis)
              <=> (Len(name) > max_chars /\ Len(WordsIn(lines, Len(lines))) < Len(split(name)))
        /\ Len(name) > max_chars * max_lines
              => (Len(lines) = max_lines /\ EndsWith(result, Ellipsis))

\* C8: start given and no due date: Finish = Start + 1 day; due date given
\* and no start: Start = Finish - 1 day; neither: both None; both: unchanged.
C8_BackfillOneDay ==
    (pc = "extracted" /\ ~raised) =>
        LET s == GivenStart(wp)
            d == GivenDue(wp)
            r == data[1]
        IN  /\ (Parses(s) /\ ~Parses(d)) =>
                  (r.Start = AsDate(s) /\ r.Finish = DT(s.day + 1, s.z))
            /\ (Parses(d) /\ ~Parses(s)) =>
                  (r.Finish = AsDate(d) /\ r.Start = DT(d.day - 1, d.z))
            /\ (~Parses(s) /\ ~Parses(d)) => (r.Start = None /\ r.Finish = None)
            /\ (Parses(s) /\ Parses(d)) => (r.Start = AsDate(s) /\ r.Finish = AsDate(d))

\* C8 witness: an item with a malformed start and a due date was normalized.
C8_OnlyDueGiven ==
    /\ pc = "extracted" /\ ~raised
    /\ GivenStart(wp) = Bad /\ Parses(GivenDue(wp))
    /\ data[1].Start.some

Survives(w) == ~epic_only \/ Lower(TitleOr(w.type, Task)) = epic
Scheduled(w) == Parses(GivenStart(w)) \/ Parses(GivenDue(w))

\* C9: with both fetches successful the outcome is Empty(no_work_packages)
\* exactly for an empty item list, Empty(no_scheduled) exactly when there are
\* items but none that passes the type filter has a date, and Success
\* otherwise; no item without dates is among the plotted rows.
C9_OutcomeByItems ==
    (pc = "responded" /\ fetch = "ok") =>
        LET some_scheduled ==
                \E i \in 1..Len(work_packages) :
                    Survives(work_packages[i]) /\ Scheduled(work_packages[i])
        IN  /\ outcome = "Empty_no_work_packages" <=> work_packages = <<>>
            /\ outcome = "Empty_no_scheduled" <=> (work_packages # <<>> /\ ~some_scheduled)
            /\ outcome = "Success" <=> some_scheduled
            /\ \A i \in 1..Len(df_plot) : Scheduled(ItemOf(df_plot[i]))

\* C10: the pagination loop stops, after at most max(1, limit) requests; a
\* pass that does not stop the loop has added at least one element.
C10_PaginationTerminates ==
    /\ [](/\ requests <= Max(1, limit)
          /\ pc = "paging" => (requests < Max(1, limit) /\ Len(all_elements) >= requests))
    /\ <>(pc \in {"returned", "raised"})

\* C10 witness: the loop returned on reaching limit, after limit requests.
C10_StoppedAtLimit ==
    /\ pc = "returned" /\ limit >= 2 /\ requests = limit
    /\ Len(all_elements) >= limit

====
